---------------------------- MODULE Spec2Model ----------------------------
(***************************************************************************)
(* dnit: the task-graph execution engine (Task, TrackedFile, the process-  *)
(* wide registries and the top-level exec), as a state machine.            *)
(*                                                                         *)
(* One behaviour is a series of invocations (processes) over one task      *)
(* graph and one file system.  Within an invocation the asynchronous       *)
(* functions are cut at their awaits: the code between two awaits is one   *)
(* atomic step (JavaScript runs it to completion), and steps of different  *)
(* tasks interleave freely.  The synchronous descent of exec() /           *)
(* execDependencies() is kept on an explicit call stack, one loop          *)
(* iteration per step, and nothing else runs while the stack is not empty. *)
(***************************************************************************)
EXTENDS Naturals, Integers, FiniteSets, Sequences, TLC

\* ------------------------------------------------------------------ bounds
\* Invocations (processes) in one behaviour.
MaxInvocations == 2
\* Changes made to the file system by the user between two invocations,
\* in one behaviour.
MaxEnvSteps == 1
\* File contents are 1..NContents, modification times 1..NTimes.
NContents == 2
NTimes == 2

\* ------------------------------------------------------------ the universe
Tasks == {"a", "b", "c", "d"}
Files == {"src", "out"}
Contents == 1..NContents
Times == 1..NTimes

\* What the first positional argument is, in the invocations of the model:
\* a registered task, "list", or a name that is not registered.
Requests == {"a", "d", "list", "nosuch"}

\* getTimestamp() and getHash() return "" for a file that does not exist.
EmptyTimestamp == 0
EmptyHash == 0

\* manifest.getFileData(path) === undefined
NoData == [hash |-> -1, timestamp |-> -1]

\* A.TrackedFileData
TrackedFileData == [hash : Contents \cup {EmptyHash}, timestamp : Times \cup {EmptyTimestamp}]

NoFile == [exists |-> FALSE, content |-> 0, mtime |-> 0]

NoneSet == [t \in Tasks |-> {}]

\* ------------------------------------------------------------- task graphs
\* The dnit.ts scripts of the model: what task() was called with.
\* uptodate "default" is a task declared without an uptodate parameter.

\* d -> {b, c}, b -> a; a makes out from src (the spec's compile), c reads
\* out and src under its own predicate.
Diamond ==
  [ task_deps |-> [NoneSet EXCEPT !["d"] = {"b", "c"}, !["b"] = {"a"}],
    file_deps |-> [NoneSet EXCEPT !["a"] = {"src"}, !["c"] = {"out", "src"}],
    targets   |-> [NoneSet EXCEPT !["a"] = {"out"}],
    uptodate  |-> [t \in Tasks |-> IF t = "c" THEN "custom" ELSE "default"] ]

\* a <-> b is a cycle of task dependencies, b reads src under its own
\* predicate; d reads and makes out (its own target) under its own
\* predicate.
Cyclic ==
  [ task_deps |-> [NoneSet EXCEPT !["a"] = {"b"}, !["b"] = {"a"}],
    file_deps |-> [NoneSet EXCEPT !["b"] = {"src"}, !["d"] = {"out"}],
    targets   |-> [NoneSet EXCEPT !["d"] = {"out"}],
    uptodate  |-> [t \in Tasks |-> IF t \in {"b", "d"} THEN "custom" ELSE "default"] ]

Graphs == {Diamond, Cyclic}

VARIABLES
  graph,            \* the script's declarations (fixed in a behaviour)
  fs,               \* the file system: Files -> [exists, content, mtime]
  disk,             \* the manifest file: Tasks -> Files -> data or NoData
  invocation,       \* number of the current invocation
  envSteps,         \* file-system changes made by the user so far
  phase,            \* where the top-level exec() is
  requested,        \* args["_"][0] of this invocation
  manifest,         \* the in-memory manifest
  taskManifest,     \* the tasks whose taskManifest is not null
  targetRegister,   \* Files -> the task registered for the path, or "none"
  task_deps,        \* Task.task_deps (exec() adds to it)
  doneTasks,
  inprogressTasks,
  pc,               \* where each task's exec() is
  callStack,        \* the synchronous exec() frames, innermost first
  todo,             \* per frame: task_deps still to iterate in execDependencies
  awaited,          \* per task: promisesInProgress of execDependencies
  fdTodo,           \* per task: file deps whose checkFileDeps promise is pending
  fileDepsUpToDate, \* per task: the accumulator of checkFileDeps
  actualUpToDate,   \* per task: the local of exec()
  pendingPost,      \* <<task, file>>: post-action getFileData() in flight
  saveInvoked,      \* manifest.save() has been called in this invocation
  \* ---- history variables (observations, not program state)
  execStarts,       \* per task: times exec() passed its guards
  actionRuns,       \* per task: times the action was invoked in this invocation
  raised,           \* tasks whose action raised in this invocation
  evald,            \* <<task, check>>: freshness checks evaluated
  hashCount,        \* calls of gethash in this invocation
  observed,         \* per task and file: what checkFileDeps saw
  missingAtCheck,   \* tasks with a target missing at the targets-exist step
  prev,             \* the previous invocation: requested, saved, ran, and
                    \* the manifest file it left
  fsMark,           \* the file system when the last process ended or began
  between,          \* per file: what the user did before this invocation
  twin              \* what an earlier run of this invocation decided

vars == << graph, fs, disk, invocation, envSteps, phase, requested, manifest,
           taskManifest, targetRegister, task_deps, doneTasks, inprogressTasks,
           pc, callStack, todo, awaited, fdTodo, fileDepsUpToDate,
           actualUpToDate, pendingPost, saveInvoked, execStarts, actionRuns,
           raised, evald, hashCount, observed, missingAtCheck, prev, fsMark, between,
           twin >>

procVars == << manifest, taskManifest, targetRegister, task_deps, doneTasks,
               inprogressTasks, pc, callStack, todo, awaited, fdTodo,
               fileDepsUpToDate, actualUpToDate, pendingPost, saveInvoked >>

histVars == << execStarts, actionRuns, raised, evald, hashCount, observed,
               missingAtCheck >>

crossVars == << graph, invocation, envSteps, requested, prev, fsMark, between,
               twin >>

file_deps(t) == graph.file_deps[t]
targets(t) == graph.targets[t]


\* ------------------------------------------------------------- TrackedFile
\* The digest of a file's content; only equality of digests is used.
filehash(c) == c

GetTimestamp(f) == IF fs[f].exists THEN fs[f].mtime ELSE EmptyTimestamp

Exists(f) == fs[f].exists

GetHash(f) == IF ~Exists(f) THEN EmptyHash ELSE filehash(fs[f].content)

\* Calls of this.gethash made by one getHash().
HashCalls(f) == IF ~Exists(f) THEN 0 ELSE 1

\* isUpToDate with `return hash === tData.hash` left out: a changed
\* timestamp alone marks the file changed.
IsUpToDateTimestampOnly(f, tData) ==
  IF tData = NoData
    THEN [upToDate |-> FALSE, hashed |-> 0]
    ELSE [upToDate |-> (GetTimestamp(f) = tData.timestamp), hashed |-> 0]

\* isUpToDate with the hash computed before the timestamps are compared.
IsUpToDateHashFirst(f, tData) ==
  IF tData = NoData
    THEN [upToDate |-> FALSE, hashed |-> 0]
    ELSE IF GetTimestamp(f) = tData.timestamp
      THEN [upToDate |-> TRUE, hashed |-> HashCalls(f)]
      ELSE [upToDate |-> (GetHash(f) = tData.hash), hashed |-> HashCalls(f)]

\* isUpToDate with a changed timestamp taken for up to date without a
\* look at the hash.
IsUpToDateNoHash(f, tData) ==
  IF tData = NoData
    THEN [upToDate |-> FALSE, hashed |-> 0]
    ELSE [upToDate |-> TRUE, hashed |-> 0]

\* isUpToDate(tData): the result, and the calls of gethash it made.
IsUpToDate(f, tData) ==
  IF tData = NoData
    THEN [upToDate |-> FALSE, hashed |-> 0]
    ELSE IF GetTimestamp(f) = tData.timestamp
      THEN [upToDate |-> TRUE, hashed |-> 0]
      ELSE [upToDate |-> (GetHash(f) = tData.hash), hashed |-> HashCalls(f)]

GetFileData(f) == [hash |-> GetHash(f), timestamp |-> GetTimestamp(f)]

\* getFileDataOrCached returning recomputed data for a fresh file too.
GetFileDataOrCachedRecomputes(f, tData) ==
  LET u == IsUpToDate(f, tData)
  IN  [tData |-> GetFileData(f), upToDate |-> tData # NoData /\ u.upToDate,
       hashed |-> u.hashed + HashCalls(f)]

GetFileDataOrCached(f, tData) ==
  LET u == IsUpToDate(f, tData)
  IN  IF tData # NoData /\ u.upToDate
        THEN [tData |-> tData, upToDate |-> TRUE, hashed |-> u.hashed]
        ELSE [tData |-> GetFileData(f), upToDate |-> FALSE,
              hashed |-> u.hashed + HashCalls(f)]

\* -------------------------------------------------------------------- Task
\* uptodate(): runAlways for a task declared without one; a custom
\* predicate may return either value.
runAlways == {FALSE}

UptodateValues(t) == IF graph.uptodate[t] = "default" THEN runAlways ELSE BOOLEAN

\* targetsExist() with the outer negation left out.
TargetsExistInverted(t) == \E f \in targets(t) : ~Exists(f)

\* targetsExist(): all exist, NOT some NOT exist.
TargetsExist(t) == ~(\E f \in targets(t) : ~Exists(f))

\* exec(), lines 91-96: neither done nor in progress.
ExecGuard(t) == ~(t \in doneTasks) /\ ~(t \in inprogressTasks)

\* execDependencies(), line 176.
DepGuard(dep) == ~(dep \in doneTasks) /\ ~(dep \in inprogressTasks)

\* exec() without line 98.
MarkInProgressForgets(S, t) == S

\* inprogressTasks.add(this)
MarkInProgress(S, t) == S \cup {t}

\* exec() without lines 101-106.
TargetTasksNotInferred(t) == {}

\* exec(), lines 101-106: the tasks registered for the file deps' paths.
TargetTasks(t) ==
  {targetRegister[f] : f \in {g \in file_deps(t) : targetRegister[g] # "none"}}

\* doneTasks.add(this); inprogressTasks.delete(this)
FinishDone(D, t) == D \cup {t}

\* exec() without line 141.
FinishInProgressKeeps(P, t) == P

FinishInProgress(P, t) == P \ {t}

\* The tasks whose exec() rejects when the action of t raises: t, and up
\* the chain of `await Promise.all(promisesInProgress)` every task that
\* holds the promise of a rejected exec().
RECURSIVE Awaiters(_, _)
Awaiters(S, n) ==
  IF n = 0 THEN S
  ELSE Awaiters(S \cup {p \in Tasks : awaited[p] \cap S # {}}, n - 1)

\* execDependencies() swallowing the rejection of a dependency.
RejectedOnlySelf(t) == {t}

Rejected(t) == Awaiters({t}, Cardinality(Tasks))

\* The top-level exec() calling task.exec() without `await`.
TopExecNotAwaited == TRUE

\* `await task.exec()` of the top-level exec() has resolved (or there was
\* no task to execute).
TopExecResolved == requested \notin Tasks \/ requested \in doneTasks

\* ------------------------------------------------------------ the process
ProcInit ==
  /\ manifest = [t \in Tasks |-> [f \in Files |-> NoData]]
  /\ taskManifest = {}
  /\ targetRegister = [f \in Files |-> "none"]
  /\ task_deps = graph.task_deps
  /\ doneTasks = {}
  /\ inprogressTasks = {}
  /\ pc = [t \in Tasks |-> "unstarted"]
  /\ callStack = << >>
  /\ todo = NoneSet
  /\ awaited = NoneSet
  /\ fdTodo = NoneSet
  /\ fileDepsUpToDate = [t \in Tasks |-> TRUE]
  /\ actualUpToDate = [t \in Tasks |-> TRUE]
  /\ pendingPost = {}
  /\ saveInvoked = FALSE

\* observed[t][f] before checkFileDeps of t has read f.
Unchecked == [cached |-> NoData, live |-> NoData]

HistInit ==
  /\ execStarts = [t \in Tasks |-> 0]
  /\ actionRuns = [t \in Tasks |-> 0]
  /\ raised = {}
  /\ evald = {}
  /\ hashCount = 0
  /\ observed = [t \in Tasks |-> [f \in Files |-> Unchecked]]
  /\ missingAtCheck = {}

\* twin when no invocation is run twice and when one is to be; once the
\* first of the two runs is over twin holds what it decided, until the
\* second is over.
NoTwin == [mode |-> "off", ran |-> {}, evald |-> {},
           pred |-> [t \in Tasks |-> TRUE], fs |-> [f \in Files |-> NoFile]]

Armed == [NoTwin EXCEPT !.mode = "armed"]

Start ==
  /\ graph \in Graphs
  /\ fs = [f \in Files |->
             IF f = "src" THEN [exists |-> TRUE, content |-> 1, mtime |-> 1]
                          ELSE NoFile]
  /\ disk = [t \in Tasks |-> [f \in Files |-> NoData]]
  /\ invocation = 0
  /\ envSteps = 0
  /\ phase = "exited"
  /\ requested = "none"
  /\ ProcInit
  /\ HistInit
  /\ prev = [requested |-> "none", saved |-> FALSE, ran |-> {}, disk |-> disk]
  /\ fsMark = fs
  /\ between = [f \in Files |-> "same"]

Init == Start /\ twin = NoTwin


\* ------------------------------------------------------ top-level exec()
\* taskName === 'list': print the table and return.
ListTasks ==
  /\ phase = "init"
  /\ requested = "list"
  /\ phase' = "returned"
  /\ UNCHANGED << fs, disk, crossVars, procVars, histVars >>

\* await manifest.load()
Load ==
  /\ phase = "init"
  /\ requested # "list"
  /\ manifest' = disk
  /\ phase' = "loaded"
  /\ UNCHANGED << fs, disk, crossVars, histVars, taskManifest, targetRegister,
                  task_deps, doneTasks, inprogressTasks, pc, callStack, todo,
                  awaited, fdTodo, fileDepsUpToDate, actualUpToDate,
                  pendingPost, saveInvoked >>

\* Task.setup() of one task: the register entries it sets.
SetupTargets(reg, t) == [f \in Files |-> IF f \in targets(t) THEN t ELSE reg[f]]

\* The register after setup() of every task of S, in some order.
RECURSIVE SetupAll(_, _)
SetupAll(reg, S) ==
  IF S = {} THEN reg
  ELSE LET t == CHOOSE x \in S : TRUE
       IN  SetupAll(SetupTargets(reg, t), S \ {t})

\* await Promise.all(Array.from(taskRegister.values()).map(t=>t.setup()))
Setup ==
  /\ phase = "loaded"
  /\ targetRegister' = SetupAll(targetRegister, Tasks)
  /\ taskManifest' = Tasks
  /\ phase' = "setup"
  /\ UNCHANGED << fs, disk, crossVars, histVars, manifest, task_deps,
                  doneTasks, inprogressTasks, pc, callStack, todo, awaited,
                  fdTodo, fileDepsUpToDate, actualUpToDate, pendingPost,
                  saveInvoked >>

\* exec() of t from its guards to the start of execDependencies():
\* lines 98-108 and 174.  `aw` and `td` are awaited and todo as the caller
\* (the loop of execDependencies one frame up) leaves them.
EnterExec(t, aw, td) ==
  /\ inprogressTasks' = MarkInProgress(inprogressTasks, t)
  /\ task_deps' = [task_deps EXCEPT ![t] = @ \cup TargetTasks(t)]
  /\ todo' = [td EXCEPT ![t] = task_deps'[t]]
  /\ awaited' = [aw EXCEPT ![t] = {}]
  /\ callStack' = << t >> \o callStack
  /\ pc' = [pc EXCEPT ![t] = "execDependencies"]
  /\ execStarts' = [execStarts EXCEPT ![t] = @ + 1]

\* A top-level exec() whose log of an unknown name throws.
LogErrorThrows(ph) == "failed"

\* log.error(`task ${taskName} not found`): the message is logged and the
\* top-level exec() goes on to phase ph.
LogError(ph) == ph

\* const task = taskRegister.get(taskName); task.exec() up to its first
\* await, or the log of an unknown name.
TopExec ==
  /\ phase = "setup"
  /\ phase' = IF requested \in Tasks THEN "running" ELSE LogError("running")
  /\ IF requested \in Tasks /\ ExecGuard(requested)
       THEN EnterExec(requested, awaited, todo)
       ELSE UNCHANGED << inprogressTasks, task_deps, todo, awaited, callStack,
                         pc, execStarts >>
  /\ UNCHANGED << fs, disk, crossVars, manifest, taskManifest, targetRegister,
                  doneTasks, fdTodo, fileDepsUpToDate, actualUpToDate,
                  pendingPost, saveInvoked, actionRuns, raised, evald, hashCount,
                  observed, missingAtCheck >>

\* execDependencies() keeping, for a dependency in progress, the promise of
\* its running exec().
PushedInProgress(dep) == IF dep \in inprogressTasks THEN {dep} ELSE {}

\* Line 176 is false of dep: no promise is pushed for it.
NotPushed(dep) == {}

\* One iteration of the loop of execDependencies() of the innermost frame:
\* a dependency that is neither done nor in progress is executed (its
\* exec() runs synchronously to its own first await) and its promise kept.
ExecDependenciesLoop(t, dep) ==
  /\ callStack # << >>
  /\ t = Head(callStack)
  /\ dep \in todo[t]
  /\ IF DepGuard(dep) /\ ExecGuard(dep)
       THEN EnterExec(dep, [awaited EXCEPT ![t] = @ \cup {dep}],
                           [todo EXCEPT ![t] = @ \ {dep}])
       ELSE /\ todo' = [todo EXCEPT ![t] = @ \ {dep}]
            /\ awaited' = [awaited EXCEPT ![t] = @ \cup NotPushed(dep)]
            /\ UNCHANGED << inprogressTasks, task_deps, callStack, pc,
                            execStarts >>
  /\ UNCHANGED << fs, disk, crossVars, phase, manifest, taskManifest,
                  targetRegister, doneTasks, fdTodo, fileDepsUpToDate,
                  actualUpToDate, pendingPost, saveInvoked, actionRuns, raised,
                  evald, hashCount, observed, missingAtCheck >>


\* The loop of execDependencies() of the innermost frame is over: the
\* frame suspends at `await Promise.all(promisesInProgress)`.
ExecDependenciesAwait(t) ==
  /\ callStack # << >>
  /\ t = Head(callStack)
  /\ todo[t] = {}
  /\ callStack' = Tail(callStack)
  /\ UNCHANGED << fs, disk, crossVars, phase, histVars, manifest, taskManifest,
                  targetRegister, task_deps, doneTasks, inprogressTasks, pc,
                  todo, awaited, fdTodo, fileDepsUpToDate, actualUpToDate,
                  pendingPost, saveInvoked >>

\* A step of an asynchronous continuation can run: the process lives and
\* no synchronous code is on the stack.  The rejection of the top-level
\* exec() is not handled by the script (exec(Deno.args) is its last
\* statement), which ends the process.
Live == phase \in {"running", "saving", "returned"} /\ callStack = << >>

\* execDependencies() returning without line 180.
PromiseAllNotAwaited(t) == TRUE

\* `await Promise.all(promisesInProgress)` of execDependencies() of t
\* resolves: every exec() whose promise it holds has resolved.
PromiseAllResolved(t) == awaited[t] \subseteq doneTasks

\* `await this.execDependencies()` resolves: every exec() it started is
\* done.  checkFileDeps() begins: its loop starts one promise per file dep.
ExecDependenciesResolve(t) ==
  /\ Live
  /\ pc[t] = "execDependencies"
  /\ PromiseAllResolved(t)
  /\ pc' = [pc EXCEPT ![t] = "checkFileDeps"]
  /\ fdTodo' = [fdTodo EXCEPT ![t] = file_deps(t)]
  /\ fileDepsUpToDate' = [fileDepsUpToDate EXCEPT ![t] = TRUE]
  /\ UNCHANGED << fs, disk, crossVars, phase, histVars, manifest, taskManifest,
                  targetRegister, task_deps, doneTasks, inprogressTasks,
                  callStack, todo, awaited, actualUpToDate, pendingPost,
                  saveInvoked >>

\* checkFileDeps(), one file dep's promise: getFileDataOrCached on the
\* cached data, the result written back, the accumulator updated.
CheckFileDep(t, f) ==
  /\ Live
  /\ pc[t] = "checkFileDeps"
  /\ f \in fdTodo[t]
  /\ t \in taskManifest
  /\ LET r == GetFileDataOrCached(f, manifest[t][f])
     IN  /\ manifest' = [manifest EXCEPT ![t][f] = r.tData]
         /\ fileDepsUpToDate' = [fileDepsUpToDate EXCEPT ![t] = @ /\ r.upToDate]
         /\ hashCount' = hashCount + r.hashed
  /\ observed' = [observed EXCEPT ![t][f] =
                    [cached |-> manifest[t][f], live |-> GetFileData(f)]]
  /\ fdTodo' = [fdTodo EXCEPT ![t] = @ \ {f}]
  /\ UNCHANGED << fs, disk, crossVars, phase, taskManifest, targetRegister,
                  task_deps, doneTasks, inprogressTasks, pc, callStack, todo,
                  awaited, actualUpToDate, pendingPost, saveInvoked,
                  execStarts, actionRuns, raised, evald, missingAtCheck >>

\* checkFileDeps() returns: line 112.
CheckFileDepsReturn(t) ==
  /\ Live
  /\ pc[t] = "checkFileDeps"
  /\ fdTodo[t] = {}
  /\ actualUpToDate' = [actualUpToDate EXCEPT ![t] = fileDepsUpToDate[t]]
  /\ evald' = evald \cup {<< t, "checkFileDeps" >>}
  /\ pc' = [pc EXCEPT ![t] = "targetsExist"]
  /\ UNCHANGED << fs, disk, crossVars, phase, manifest, taskManifest,
                  targetRegister, task_deps, doneTasks, inprogressTasks,
                  callStack, todo, awaited, fdTodo, fileDepsUpToDate,
                  pendingPost, saveInvoked, execStarts, actionRuns, raised,
                  hashCount, observed, missingAtCheck >>

\* `await check() && actualUpToDate`: the check is called whatever the
\* accumulator holds.
AndEvaluatesAlways(acc) == TRUE

\* `actualUpToDate && await check()` of lines 115 and 118: the check is
\* called when the accumulator holds true.
AndEvaluates(acc) == acc

\* Line 115: actualUpToDate && await this.targetsExist().
TargetsExistStep(t) ==
  /\ Live
  /\ pc[t] = "targetsExist"
  /\ actualUpToDate' = [actualUpToDate EXCEPT ![t] = @ /\ TargetsExist(t)]
  /\ evald' = IF AndEvaluates(actualUpToDate[t])
                THEN evald \cup {<< t, "targetsExist" >>}
                ELSE evald
  /\ missingAtCheck' = IF \E f \in targets(t) : ~fs[f].exists
                         THEN missingAtCheck \cup {t}
                         ELSE missingAtCheck
  /\ pc' = [pc EXCEPT ![t] = "uptodate"]
  /\ UNCHANGED << fs, disk, crossVars, phase, manifest, taskManifest,
                  targetRegister, task_deps, doneTasks, inprogressTasks,
                  callStack, todo, awaited, fdTodo, fileDepsUpToDate,
                  pendingPost, saveInvoked, execStarts, actionRuns, raised,
                  hashCount, observed >>

\* doneTasks.add(this); inprogressTasks.delete(this): lines 140-141.
Finish(t) ==
  /\ doneTasks' = FinishDone(doneTasks, t)
  /\ inprogressTasks' = FinishInProgress(inprogressTasks, t)
  /\ pc' = [pc EXCEPT ![t] = "done"]

\* Lines 118-125 and, when up to date, 140-141: actualUpToDate && await
\* this.uptodate(), then the branch: the task is done without its action,
\* or the action is invoked.
UptodateStep(t) ==
  /\ Live
  /\ pc[t] = "uptodate"
  /\ \E r \in (IF AndEvaluates(actualUpToDate[t]) THEN UptodateValues(t)
                                                   ELSE {FALSE}) :
     LET b == actualUpToDate[t] /\ r
     IN
       /\ actualUpToDate' = [actualUpToDate EXCEPT ![t] = b]
       /\ IF b THEN /\ Finish(t)
                    /\ UNCHANGED actionRuns
               ELSE /\ pc' = [pc EXCEPT ![t] = "action"]
                    /\ actionRuns' = [actionRuns EXCEPT ![t] = @ + 1]
                    /\ UNCHANGED << doneTasks, inprogressTasks >>
  /\ evald' = IF AndEvaluates(actualUpToDate[t])
                THEN evald \cup {<< t, "uptodate" >>}
                ELSE evald
  /\ UNCHANGED << fs, disk, crossVars, phase, manifest, taskManifest,
                  targetRegister, task_deps, callStack, todo, awaited, fdTodo,
                  fileDepsUpToDate, pendingPost, saveInvoked, execStarts,
                  raised, hashCount, observed, missingAtCheck >>

\* No continuation that needs no action to end is ready: no exec() can
\* leave execDependencies(), and none is at a check.
Quiet ==
  \A u \in Tasks :
    /\ pc[u] \notin {"checkFileDeps", "targetsExist", "uptodate"}
    /\ pc[u] = "execDependencies" => ~PromiseAllResolved(u)

\* The clock of the model ticks once per invocation.
Now == invocation

\* The file system after the action of t wrote its targets: each gets
\* the content w gives it, and the time of the write.
WriteTargets(t, w) ==
  [f \in Files |-> IF f \in targets(t)
                     THEN [exists |-> TRUE, content |-> w[f], mtime |-> Now]
                     ELSE fs[f]]

\* Lines 125-141: `await this.action()` resolves, the action having
\* written its targets; getFileData() is started for every file dep and
\* its promise dropped (promisesInProgress stays empty), so the task is
\* done one microtask later, before any of them can complete.
ActionComplete(t) ==
  /\ Live
  /\ pc[t] = "action"
  /\ twin.mode # "off" => Quiet
  /\ \E w \in [targets(t) -> Contents] :
       fs' = WriteTargets(t, w)
  /\ pendingPost' = pendingPost \cup {<< t, f >> : f \in file_deps(t)}
  /\ Finish(t)
  /\ UNCHANGED << disk, crossVars, phase, histVars, manifest, taskManifest,
                  targetRegister, task_deps, callStack, todo, awaited, fdTodo,
                  fileDepsUpToDate, actualUpToDate, saveInvoked >>

\* `await this.action()` rejects: exec() of t rejects, and with it every
\* exec() awaiting it, up to the top-level exec(), which saves nothing.
ActionRaise(t) ==
  /\ Live
  /\ pc[t] = "action"
  /\ pc' = [p \in Tasks |-> IF p \in Rejected(t) THEN "failed" ELSE pc[p]]
  /\ raised' = raised \cup {t}
  /\ phase' = IF requested \in Rejected(t) THEN "failed" ELSE phase
  /\ UNCHANGED << fs, disk, crossVars, manifest, taskManifest, targetRegister, task_deps,
                  doneTasks, inprogressTasks, callStack, todo, awaited, fdTodo,
                  fileDepsUpToDate, actualUpToDate, pendingPost, saveInvoked,
                  execStarts, actionRuns, evald, hashCount, observed,
                  missingAtCheck >>

\* A post-action fdep.getFileData().then(setFileData) completes: it needs
\* file I/O, so this is after line 140 (ActionComplete) at the earliest.
PostUpdate(t, f) ==
  /\ Live
  /\ << t, f >> \in pendingPost
  /\ manifest' = [manifest EXCEPT ![t][f] = GetFileData(f)]
  /\ hashCount' = hashCount + HashCalls(f)
  /\ pendingPost' = pendingPost \ {<< t, f >>}
  /\ UNCHANGED << fs, disk, crossVars, phase, taskManifest, targetRegister,
                  task_deps, doneTasks, inprogressTasks, pc, callStack, todo,
                  awaited, fdTodo, fileDepsUpToDate, actualUpToDate,
                  saveInvoked, execStarts, actionRuns, raised, evald,
                  observed, missingAtCheck >>

\* The top-level exec() with manifest.save() in a finally clause.
SaveReachedFinally ==
  \/ phase = "running" /\ TopExecResolved
  \/ phase = "failed"

\* Line 313 is reached: lines 306-311 completed without a throw.
SaveReached == phase = "running" /\ TopExecResolved

\* Line 313: manifest.save() is called once `await task.exec()` resolved.
SaveInvoke ==
  /\ SaveReached
  /\ callStack = << >>
  /\ saveInvoked' = TRUE
  /\ phase' = "saving"
  /\ UNCHANGED << fs, disk, crossVars, histVars, manifest, taskManifest,
                  targetRegister, task_deps, doneTasks, inprogressTasks, pc,
                  callStack, todo, awaited, fdTodo, fileDepsUpToDate,
                  actualUpToDate, pendingPost >>

\* manifest.save() writes the in-memory manifest to the file and
\* resolves; the top-level exec() returns.
SaveWrite ==
  /\ phase = "saving"
  /\ disk' = manifest
  /\ phase' = "returned"
  /\ UNCHANGED << fs, crossVars, procVars, histVars >>


\* ------------------------------------------- the user, between invocations
\* What the user did to a file between the end of one invocation (file
\* `old`) and the start of the next (file `new`).
Classify(old, new) ==
  IF old = new THEN "same"
  ELSE IF ~new.exists THEN "deleted"
  ELSE IF ~old.exists THEN "created"
  ELSE IF old.content = new.content THEN "touched"
  ELSE IF old.mtime = new.mtime THEN "editedSameTime"
  ELSE "edited"

\* The user writes a file: an edit, a touch or a creation.
UserWrites(f) ==
  /\ phase = "exited"
  /\ envSteps < MaxEnvSteps
  /\ \E c \in Contents, m \in Times :
       /\ [exists |-> TRUE, content |-> c, mtime |-> m] # fs[f]
       /\ fs' = [fs EXCEPT ![f] = [exists |-> TRUE, content |-> c, mtime |-> m]]
  /\ envSteps' = envSteps + 1
  /\ UNCHANGED << graph, disk, invocation, phase, requested, prev, fsMark,
                  between, twin, procVars, histVars >>

UserDeletes(f) ==
  /\ phase = "exited"
  /\ envSteps < MaxEnvSteps
  /\ fs[f].exists
  /\ fs' = [fs EXCEPT ![f] = NoFile]
  /\ envSteps' = envSteps + 1
  /\ UNCHANGED << graph, disk, invocation, phase, requested, prev, fsMark,
                  between, twin, procVars, histVars >>

\* The module-level state and the observations of a process not yet run.
ProcReset ==
  /\ manifest' = [t \in Tasks |-> [f \in Files |-> NoData]]
  /\ taskManifest' = {}
  /\ targetRegister' = [f \in Files |-> "none"]
  /\ task_deps' = graph.task_deps
  /\ doneTasks' = {}
  /\ inprogressTasks' = {}
  /\ pc' = [t \in Tasks |-> "unstarted"]
  /\ callStack' = << >>
  /\ todo' = NoneSet
  /\ awaited' = NoneSet
  /\ fdTodo' = NoneSet
  /\ fileDepsUpToDate' = [t \in Tasks |-> TRUE]
  /\ actualUpToDate' = [t \in Tasks |-> TRUE]
  /\ pendingPost' = {}
  /\ saveInvoked' = FALSE
  /\ execStarts' = [t \in Tasks |-> 0]
  /\ actionRuns' = [t \in Tasks |-> 0]
  /\ raised' = {}
  /\ evald' = {}
  /\ hashCount' = 0
  /\ observed' = [t \in Tasks |-> [f \in Files |-> Unchecked]]
  /\ missingAtCheck' = {}

\* The process ends: the top-level exec() has returned or rejected.  The
\* module-level state (manifest, registers, doneTasks, inprogressTasks,
\* the tasks) is that of a script not yet run.
Exit ==
  /\ phase \in {"returned", "failed"}
  /\ phase' = "exited"
  /\ requested' = "none"
  /\ prev' = [requested |-> requested,
              saved |-> (phase = "returned" /\ saveInvoked),
              ran |-> {t \in Tasks : actionRuns[t] > 0},
              disk |-> disk]
  /\ fsMark' = fs
  /\ ProcReset
  /\ twin' = IF twin.mode = "replayed" THEN [NoTwin EXCEPT !.mode = "over"]
                                       ELSE twin
  /\ UNCHANGED << graph, fs, disk, invocation, envSteps, between >>

\* The script is run: deno run dnit.ts <requested>.
Begin ==
  /\ phase = "exited"
  /\ invocation < MaxInvocations
  /\ invocation' = invocation + 1
  /\ requested' \in Requests
  /\ phase' = "init"
  /\ between' = [f \in Files |-> Classify(fsMark[f], fs[f])]
  /\ fsMark' = fs
  /\ UNCHANGED << graph, fs, disk, envSteps, prev, twin, procVars, histVars >>

\* The invocation that has just returned is run again from the state it
\* began in: same script, same argument, same files, same manifest file.
\* What it decided is kept in twin.
Replay ==
  /\ twin = Armed
  /\ phase = "returned"
  /\ saveInvoked
  /\ requested \in Tasks
  /\ twin' = [mode |-> "replayed",
              ran |-> {t \in Tasks : actionRuns[t] > 0},
              evald |-> evald,
              pred |-> actualUpToDate,
              fs |-> fs]
  /\ fs' = fsMark
  /\ disk' = prev.disk
  /\ phase' = "init"
  /\ ProcReset
  /\ UNCHANGED << graph, invocation, envSteps, requested, prev, fsMark, between >>

\* ------------------------------------------------------- the specification
Next ==
  \/ ListTasks
  \/ Load
  \/ Setup
  \/ TopExec
  \/ \E t \in Tasks, dep \in Tasks : ExecDependenciesLoop(t, dep)
  \/ \E t \in Tasks : ExecDependenciesAwait(t)
  \/ \E t \in Tasks : ExecDependenciesResolve(t)
  \/ \E t \in Tasks, f \in Files : CheckFileDep(t, f)
  \/ \E t \in Tasks : CheckFileDepsReturn(t)
  \/ \E t \in Tasks : TargetsExistStep(t)
  \/ \E t \in Tasks : UptodateStep(t)
  \/ \E t \in Tasks : ActionComplete(t)
  \/ \E t \in Tasks : ActionRaise(t)
  \/ \E t \in Tasks, f \in Files : PostUpdate(t, f)
  \/ SaveInvoke
  \/ SaveWrite
  \/ \E f \in Files : UserWrites(f)
  \/ \E f \in Files : UserDeletes(f)
  \/ Exit
  \/ Begin

Spec == Init /\ [][Next]_vars

\* A step of the invocation other than an action raising.
Step ==
  \/ ListTasks
  \/ Load
  \/ Setup
  \/ TopExec
  \/ \E t \in Tasks, dep \in Tasks : ExecDependenciesLoop(t, dep)
  \/ \E t \in Tasks : ExecDependenciesAwait(t)
  \/ \E t \in Tasks : ExecDependenciesResolve(t)
  \/ \E t \in Tasks, f \in Files : CheckFileDep(t, f)
  \/ \E t \in Tasks : CheckFileDepsReturn(t)
  \/ \E t \in Tasks : TargetsExistStep(t)
  \/ \E t \in Tasks : UptodateStep(t)
  \/ \E t \in Tasks : ActionComplete(t)
  \/ SaveInvoke
  \/ SaveWrite

\* The event loop runs a continuation that is ready, and actions,
\* predicates and file operations end.
SpecLive == Init /\ [][Next]_vars /\ WF_vars(Step)

\* Invocations in which an action takes longer than any check (an action
\* ends only when no check is ready), one of them run twice.
InitOrder == Start /\ twin = Armed

SpecOrder == InitOrder /\ [][Next \/ Replay]_vars


\* ================================================================ claims
Started(t) == pc[t] # "unstarted"

\* exec() of t is past `await this.execDependencies()`.
PastDependencies(t) ==
  pc[t] \in {"checkFileDeps", "targetsExist", "uptodate", "action", "done"}

\* The action of t has been invoked, or t is done without it.
Decided(t) == pc[t] \in {"action", "done"} \/ t \in raised

\* C1. Dependency before dependent: a task T that lists as a file
\* dependency a file that another task D declares as target is past its
\* dependencies (at its file-dependency check, or further) only when D is
\* done.
C1_DependencyBeforeDependent ==
  \A T \in Tasks, D \in Tasks :
    (D # T /\ targets(D) \cap file_deps(T) # {} /\ PastDependencies(T))
      => D \in doneTasks

\* C2. Deduplication: in one invocation exec() of a task passes its guards
\* at most once, and the action of a task is invoked at most once.
C2_Deduplication ==
  \A t \in Tasks : execStarts[t] <= 1 /\ actionRuns[t] <= 1

\* A task that two started tasks depend on is done, its action run once.
C2_Witness ==
  \E t \in Tasks :
    /\ t \in doneTasks
    /\ actionRuns[t] = 1
    /\ Cardinality({p \in Tasks : Started(p) /\ t \in task_deps[p]}) >= 2

\* This invocation and the previous one both ran task t, the previous one
\* saved the manifest, no file was changed in between and every target of
\* t exists.
SecondRunUnchanged(t) ==
  /\ requested = t
  /\ prev.requested = t
  /\ prev.saved
  /\ \A f \in Files : between[f] = "same"
  /\ \A f \in targets(t) : fsMark[f].exists

\* C3. Idempotence: a task with the default predicate, file dependencies
\* and targets, run in two successive invocations with no file changed in
\* between, runs its action in the first and not in the second.
C3_Idempotence ==
  \A t \in Tasks :
    ( /\ graph.uptodate[t] = "default"
      /\ file_deps(t) # {}
      /\ targets(t) # {}
      /\ SecondRunUnchanged(t) )
      => (t \in prev.ran /\ actionRuns[t] = 0)

\* checkFileDeps of t read f with cached data, and the content of f was not
\* the content whose hash is cached.
SawChangedContent(t, f) ==
  /\ observed[t][f] # Unchecked
  /\ observed[t][f].cached # NoData
  /\ observed[t][f].live.hash # observed[t][f].cached.hash

SawChangedTimestamp(t, f) ==
  observed[t][f].live.timestamp # observed[t][f].cached.timestamp

\* The user changed the content of f between the previous invocation and
\* this one.
EditedBetween(f) == between[f] \in {"edited", "editedSameTime"}

\* The top-level exec() has returned, the manifest saved.
Returned == phase = "returned" /\ saveInvoked

\* C4 as stated. Changed content forces a rerun and a cache update: when
\* the content of a file dependency was changed between two invocations
\* and is not the cached content, with a new or the same timestamp, the
\* task runs its action and the saved cache holds the hash of the new
\* content.
C4_ChangedContentForcesRerun ==
  \A t \in Tasks, f \in Files :
    (f \in file_deps(t) /\ EditedBetween(f) /\ SawChangedContent(t, f))
      => /\ Decided(t) => actionRuns[t] >= 1
         /\ Returned => disk[t][f].hash \in {observed[t][f].live.hash, GetHash(f)}

\* C4, amended. When the content of a file dependency is not the cached
\* content and its timestamp is not the cached timestamp, the task runs its
\* action and the saved cache holds the hash of the new content, or of
\* what an action of the same invocation wrote over it.
C4_ChangedContentNewTimestamp ==
  \A t \in Tasks, f \in Files :
    (f \in file_deps(t) /\ SawChangedContent(t, f) /\ SawChangedTimestamp(t, f))
      => /\ Decided(t) => actionRuns[t] >= 1
         /\ Returned => disk[t][f].hash \in {observed[t][f].live.hash, GetHash(f)}

\* The second invocation of a task returned, having seen a file dependency
\* with new content and a new timestamp, run the action and saved the hash
\* of the new content.
C4_Witness ==
  \E t \in Tasks, f \in Files :
    /\ f \in file_deps(t) /\ SawChangedContent(t, f) /\ SawChangedTimestamp(t, f)
    /\ between[f] = "edited"
    /\ graph.uptodate[t] = "custom"
    /\ Returned
    /\ actionRuns[t] = 1
    /\ disk[t][f].hash = observed[t][f].live.hash
    /\ disk[t][f].hash # observed[t][f].cached.hash

\* C5. Missing target forces rerun: a task with a declared target missing
\* at its targets-exist step is not up to date after it, and its action is
\* invoked, whatever its file dependencies and its predicate say.
C5_MissingTargetForcesRerun ==
  \A t \in missingAtCheck :
    /\ pc[t] = "uptodate" => ~actualUpToDate[t]
    /\ Decided(t) => actionRuns[t] >= 1

\* A task with its own predicate, its file dependencies all fresh and a
\* target missing has run its action.
C5_Witness ==
  \E t \in missingAtCheck :
    /\ graph.uptodate[t] = "custom"
    /\ file_deps(t) # {}
    /\ fileDepsUpToDate[t]
    /\ pc[t] = "done"
    /\ actionRuns[t] = 1


\* C6. Content over metadata: isUpToDate is true of cached data whose
\* timestamp is not the file's and whose hash is the file's; and a task
\* whose only file dependency was read in that state has its
\* file-dependency check return true.
C6_ContentOverMetadata ==
  /\ \A f \in Files, tData \in TrackedFileData :
       (tData.timestamp # GetTimestamp(f) /\ tData.hash = GetHash(f))
         => IsUpToDate(f, tData).upToDate
  /\ \A t \in Tasks, f \in Files :
       ( /\ file_deps(t) = {f}
         /\ observed[t][f] # Unchecked
         /\ observed[t][f].cached # NoData
         /\ observed[t][f].live.timestamp # observed[t][f].cached.timestamp
         /\ observed[t][f].live.hash = observed[t][f].cached.hash )
         => /\ fileDepsUpToDate[t]
            /\ pc[t] = "targetsExist" => actualUpToDate[t]
            /\ pc[t] \in {"uptodate", "action", "done"}
                 => << t, "targetsExist" >> \in evald

\* A task whose only file dependency the user touched has passed its
\* file-dependency check with true.
C6_Witness ==
  \E t \in Tasks, f \in Files :
    /\ file_deps(t) = {f}
    /\ between[f] = "touched"
    /\ observed[t][f].cached # NoData
    /\ observed[t][f].live.timestamp # observed[t][f].cached.timestamp
    /\ observed[t][f].live.hash = observed[t][f].cached.hash
    /\ pc[t] = "targetsExist"
    /\ actualUpToDate[t]

\* The step is the check of file dependency f of task t (CheckFileDep).
IsCheckOf(t, f) ==
  /\ pc[t] = "checkFileDeps"
  /\ f \in fdTodo[t]
  /\ f \notin fdTodo'[t]
  /\ phase' = phase

\* C7. Metadata short-circuit: with cached data whose timestamp is the
\* file's, isUpToDate and getFileDataOrCached call no hash function, and a
\* check of a file dependency in that state leaves the count of hash
\* computations unchanged.
C7_MetadataShortCircuit ==
  /\ [](\A f \in Files, tData \in TrackedFileData :
         tData.timestamp = GetTimestamp(f)
           => /\ IsUpToDate(f, tData).hashed = 0
              /\ GetFileDataOrCached(f, tData).hashed = 0)
  /\ [][\A t \in Tasks, f \in Files :
         ( /\ IsCheckOf(t, f)
           /\ manifest[t][f] # NoData
           /\ manifest[t][f].timestamp = GetTimestamp(f) )
           => hashCount' = hashCount]_vars

\* A file that exists was checked against cached data of the same
\* timestamp, and no hash has been computed in the invocation.
C7_Witness ==
  \E t \in Tasks, f \in Files :
    /\ observed[t][f].cached # NoData
    /\ observed[t][f].cached.timestamp = observed[t][f].live.timestamp
    /\ observed[t][f].live.hash # EmptyHash
    /\ hashCount = 0

\* unstarted, in progress or done, by the two sets.
Status(D, P, t) ==
  IF t \in D THEN "done" ELSE IF t \in P THEN "inprogress" ELSE "unstarted"

\* C8. Task lifecycle: the done set and the in-progress set are disjoint;
\* within an invocation their union loses no member and a task only moves
\* unstarted -> in progress -> done.
C8_Lifecycle ==
  /\ [](doneTasks \cap inprogressTasks = {})
  /\ [][phase' # "exited" =>
          /\ (doneTasks \cup inprogressTasks) \subseteq (doneTasks' \cup inprogressTasks')
          /\ doneTasks \subseteq doneTasks'
          /\ \A t \in Tasks :
               \/ Status(doneTasks', inprogressTasks', t) = Status(doneTasks, inprogressTasks, t)
               \/ /\ Status(doneTasks, inprogressTasks, t) = "unstarted"
                  /\ Status(doneTasks', inprogressTasks', t) = "inprogress"
               \/ /\ Status(doneTasks, inprogressTasks, t) = "inprogress"
                  /\ Status(doneTasks', inprogressTasks', t) = "done"]_vars

\* One task is done while another is in progress and a third not started.
C8_Witness ==
  /\ doneTasks # {}
  /\ inprogressTasks # {}
  /\ doneTasks \cup inprogressTasks # Tasks

\* The task dependencies of t, declared and inferred from targets.
AllDeps(t) ==
  graph.task_deps[t] \cup {d \in Tasks : targets(d) \cap file_deps(t) # {}}

RECURSIVE Reach(_, _)
Reach(S, n) ==
  IF n = 0 THEN S
  ELSE Reach(S \cup UNION {AllDeps(t) : t \in S}, n - 1)

\* t and its transitive dependencies.
Closure(t) == Reach({t}, Cardinality(Tasks))

\* C9. Persistence ordering: no exec() has begun before the cache is loaded,
\* and when the save is invoked the requested task and all of its
\* transitive dependencies are done and no task is in progress.
C9_PersistenceOrdering ==
  /\ (\E t \in Tasks : Started(t)) => phase \notin {"exited", "init"}
  /\ (phase = "saving" /\ requested \in Tasks)
       => /\ Closure(requested) \subseteq doneTasks
          /\ inprogressTasks = {}

\* The save is invoked for a task with three dependencies, the cache having
\* been loaded with data of an earlier invocation.
C9_Witness ==
  /\ phase = "saving"
  /\ requested \in Tasks
  /\ Cardinality(Closure(requested)) = 4
  /\ Closure(requested) \subseteq doneTasks
  /\ \E t \in Tasks, f \in Files : disk[t][f] # NoData

\* C10. Action failure propagation: when the action of a task has raised,
\* the top-level exec() has failed, the task is not done, and every task
\* that awaits it, directly or through others, has failed with it, is not
\* done and has not run its action.
C10_ActionFailurePropagation ==
  \A t \in raised :
    /\ phase = "failed"
    /\ ~saveInvoked
    /\ t \notin doneTasks
    /\ pc[t] = "failed"
    /\ \A p \in Awaiters({t}, Cardinality(Tasks)) \ {t} :
         /\ pc[p] = "failed"
         /\ p \notin doneTasks
         /\ actionRuns[p] = 0

\* The action of a task two awaits below the requested task raised.
C10_Witness ==
  \E t \in raised :
    /\ phase = "failed"
    /\ Cardinality(Awaiters({t}, Cardinality(Tasks))) >= 3
    /\ requested \in Awaiters({t}, Cardinality(Tasks))

\* The first positional argument is neither 'list' nor a registered task.
UnknownTask == requested \notin Tasks \cup {"list", "none"}

\* C11. Unknown task name: the top-level exec() raises no error and starts
\* no exec() and no action; once past the load the in-memory cache is the
\* durable one, once past the setup every task has its manifest entry and
\* every target its register entry, and it returns with the save invoked.
C11_UnknownTaskName ==
  UnknownTask =>
    /\ phase # "failed"
    /\ \A t \in Tasks :
         execStarts[t] = 0 /\ actionRuns[t] = 0 /\ pc[t] = "unstarted"
    /\ phase \in {"loaded", "setup", "running", "saving", "returned"}
         => manifest = disk
    /\ phase \in {"setup", "running", "saving", "returned"}
         => /\ taskManifest = Tasks
            /\ \A t \in Tasks : \A f \in targets(t) : targetRegister[f] # "none"
    /\ phase = "returned" => saveInvoked

\* An invocation with an unknown name returned, the cache of an earlier
\* invocation loaded and saved.
C11_Witness ==
  /\ UnknownTask
  /\ phase = "returned"
  /\ saveInvoked
  /\ \E t \in Tasks, f \in Files : disk[t][f] # NoData /\ manifest = disk

\* C12. No persistence on failure: once the action of a task has raised,
\* the top-level exec() has failed without the save invoked, and the
\* manifest file is the one the invocation started with.
C12_NoPersistenceOnFailure ==
  raised # {} =>
    /\ phase = "failed"
    /\ ~saveInvoked
    /\ disk = prev.disk

\* An invocation failed with updates in the in-memory cache that the
\* manifest file of an earlier invocation does not have.
C12_Witness ==
  /\ raised # {}
  /\ phase = "failed"
  /\ disk = prev.disk
  /\ \E t \in Tasks, f \in Files :
       disk[t][f] # NoData /\ manifest[t][f] # disk[t][f]

\* C13. Post-action cache sync completes before done: a task that ran its
\* action and is in the done set has no post-action recomputation of a
\* file dependency still in flight.
C13_PostSyncBeforeDone ==
  \A t \in doneTasks :
    actionRuns[t] >= 1 => \A f \in file_deps(t) : << t, f >> \notin pendingPost

\* C14. Started dependencies are awaited: every task dependency that the
\* exec() of T started is in the done set when T is at its file-dependency
\* check, its targets-exist check, its predicate or its action, or done.
C14_StartedDependenciesAwaited ==
  \A T \in Tasks :
    PastDependencies(T) =>
      /\ awaited[T] \subseteq task_deps[T]
      /\ awaited[T] \subseteq doneTasks

\* A task that started two dependencies is at its file-dependency check.
C14_Witness ==
  \E T \in Tasks :
    /\ pc[T] = "checkFileDeps"
    /\ Cardinality(awaited[T]) >= 2
    /\ awaited[T] \subseteq doneTasks

\* C15. Target-inferred dependencies: when exec() of T is past its
\* dependencies, the task registered for the path of any of its file
\* dependencies is in the task-dependency set of T and is in progress or
\* done.
C15_TargetInferredDependencies ==
  \A T \in Tasks, f \in Files :
    (PastDependencies(T) /\ f \in file_deps(T) /\ targetRegister[f] # "none")
      => /\ targetRegister[f] \in task_deps[T]
         /\ targetRegister[f] \in inprogressTasks \cup doneTasks

\* A task is at its file-dependency check with a dependency it did not
\* declare, the task that makes one of its file dependencies.
C15_Witness ==
  \E T \in Tasks, f \in Files :
    /\ pc[T] = "checkFileDeps"
    /\ f \in file_deps(T)
    /\ targetRegister[f] \in Tasks \ ({T} \cup graph.task_deps[T])
    /\ targetRegister[f] \in task_deps[T]

\* exec() of t is past line 118 with its three checks returning true:
\* each was evaluated, the file dependencies were fresh, no target was
\* missing and the predicate returned true.
AllThreeTrue(t) ==
  /\ {<< t, "checkFileDeps" >>, << t, "targetsExist" >>, << t, "uptodate" >>}
       \subseteq evald
  /\ fileDepsUpToDate[t]
  /\ t \notin missingAtCheck
  /\ actualUpToDate[t]

\* C16. Fixed-order short-circuit of the up-to-date decision: past the
\* file-dependency check that check has been evaluated; the targets-exist
\* check is evaluated only if it returned true, the predicate only if both
\* returned true, and the action is skipped if and only if all three
\* returned true.
C16_FixedOrderShortCircuit ==
  \A t \in Tasks :
    /\ (pc[t] \in {"targetsExist", "uptodate", "action", "done"} \/ t \in raised)
         => << t, "checkFileDeps" >> \in evald
    /\ << t, "targetsExist" >> \in evald
         => << t, "checkFileDeps" >> \in evald /\ fileDepsUpToDate[t]
    /\ << t, "uptodate" >> \in evald
         => /\ << t, "targetsExist" >> \in evald
            /\ fileDepsUpToDate[t]
            /\ t \notin missingAtCheck
    /\ Decided(t) => (actionRuns[t] = 0 <=> AllThreeTrue(t))

\* One task is done without its action, its three checks true, and the
\* action of another was invoked without its predicate evaluated.
C16_Witness ==
  /\ \E t \in Tasks : pc[t] = "done" /\ actionRuns[t] = 0 /\ AllThreeTrue(t)
  /\ \E u \in Tasks :
       /\ Decided(u)
       /\ actionRuns[u] = 1
       /\ << u, "uptodate" >> \notin evald

\* What checkFileDeps saw of a file was fresh against the cached snapshot:
\* there was one, and its timestamp or its hash is the file's.
SawFresh(o) ==
  /\ o.cached # NoData
  /\ \/ o.live.timestamp = o.cached.timestamp
     \/ o.live.hash = o.cached.hash

\* checkFileDeps of t has returned and nothing has written the cache
\* entries of t since.
AfterCheckFileDeps(t) ==
  \/ pc[t] \in {"targetsExist", "uptodate", "action"}
  \/ pc[t] = "done" /\ actionRuns[t] = 0

\* C17. File-dependency check result and write-back: after checkFileDeps
\* of a task, the cache entry of every file dependency is the previously
\* cached snapshot if the file was fresh against it and the snapshot
\* computed by the check otherwise, and the check returned true if and
\* only if every file dependency had a cached snapshot and was fresh.
C17_CheckFileDepsWriteBack ==
  \A t \in Tasks :
    AfterCheckFileDeps(t) =>
      /\ \A f \in file_deps(t) :
           /\ observed[t][f] # Unchecked
           /\ manifest[t][f] = IF SawFresh(observed[t][f])
                                 THEN observed[t][f].cached
                                 ELSE observed[t][f].live
      /\ fileDepsUpToDate[t] <=> \A f \in file_deps(t) : SawFresh(observed[t][f])

\* A check of two file dependencies has returned false: one was fresh by
\* its hash under a new timestamp and keeps its cached snapshot, the other
\* had new content and has the new snapshot.
C17_Witness ==
  \E t \in Tasks, f \in Files, g \in Files :
    /\ {f, g} \subseteq file_deps(t)
    /\ pc[t] = "targetsExist"
    /\ ~actualUpToDate[t]
    /\ SawFresh(observed[t][f])
    /\ observed[t][f].live.timestamp # observed[t][f].cached.timestamp
    /\ manifest[t][f] = observed[t][f].cached
    /\ SawChangedContent(t, g)
    /\ SawChangedTimestamp(t, g)
    /\ manifest[t][g] = observed[t][g].live

\* The two runs of the invocation had the same inputs: a predicate
\* evaluated in both returned the same, and an action run in both wrote
\* the same.
SameInputs ==
  /\ \A t \in Tasks :
       (<< t, "uptodate" >> \in evald \cap twin.evald)
         => actualUpToDate[t] = twin.pred[t]
  /\ \A t \in Tasks :
       (actionRuns[t] > 0 /\ t \in twin.ran)
         => \A f \in targets(t) : fs[f] = twin.fs[f]

\* C18. Iteration-order independence: two runs of an invocation from the
\* same graph, files and cache, with the same inputs and actions that take
\* longer than any check, which differ in nothing but the order in which
\* the dependency sets are iterated, run the action of the same tasks.
C18_IterationOrderIndependence ==
  (twin.mode = "replayed" /\ Returned /\ SameInputs)
    => \A t \in Tasks : (actionRuns[t] > 0) <=> (t \in twin.ran)

\* C19. Termination on any graph: unless an action raises, the top-level
\* exec() of a task returns with the task done and no task left in
\* progress (no exec() is still waiting for another).
C19_Termination ==
  (phase = "init" /\ requested \in Tasks)
    ~> \/ /\ phase = "returned"
          /\ requested \in doneTasks
          /\ inprogressTasks = {}
       \/ phase = "failed"

\* The top-level exec() of a task on a cycle of task dependencies has
\* returned, the task and the other task of the cycle done.
C19_Witness ==
  /\ Returned
  /\ requested \in doneTasks
  /\ \E t \in Tasks \ {requested} :
       /\ t \in task_deps[requested]
       /\ requested \in task_deps[t]
       /\ t \in doneTasks

\* C20. No cache write races the save: once the top-level exec() has
\* invoked the save, no recomputation started by the exec() of a task is
\* still in flight with its write to the in-memory cache to come.
C20_NoWriteRacesSave ==
  saveInvoked => pendingPost = {}

=============================================================================
